---- MODULE Spec2Model ----
(***************************************************************************)
(* The two simulation scripts, alien_weaponry.py ("aw") and                *)
(* copyandpaste.py ("cp"), as two independent sequential programs.         *)
(*                                                                         *)
(* Numbers.  A Python/NumPy float is modelled by an integer on a grid of   *)
(* representable values: every arithmetic result is rounded to the nearest *)
(* grid point (Round), MaxFloat is the largest finite value and Inf the    *)
(* value NumPy produces beyond it.  Python's own `**` raises OverflowError *)
(* beyond MaxFloat instead.  Multipliers and probabilities (observer       *)
(* factor, Lorentz factor, tunneling probability, the 3D surface) are kept *)
(* in hundredths.  The magnitudes of the physical constants are scaled     *)
(* down so that the grid fits; the named constants the scripts invite the  *)
(* user to edit (cap_value, accelerations, observer settings) are chosen   *)
(* in Init.                                                                *)
(***************************************************************************)
EXTENDS Integers, Sequences, FiniteSets, TLC

VARIABLES aw, cp

vars == <<aw, cp>>

---------------------------------------------------------------------------
(* Bounds of the model *)

\* largest finite float of the grid (DBL_MAX)
MaxFloat == 4000000

\* time_steps: the number of entries of time_array
time_steps == 6

\* the two cap_value settings explored: CapLow**2 is finite, CapHigh**2 is not
CapLow == 1500

CapHigh == 3000

\* the initial_observers setting next to the observer threshold
ObserversNearCap == 999997

---------------------------------------------------------------------------
(* Program constants *)

\* c = 3e8, in grid units; the grid spacing at c is one unit
c == 6

\* the literal 1e-10 of `c - 1e-10` is 1/VelocityEpsilonDen of the grid
\* spacing at c (binary64 spacing at 3e8 is 2^-24 = 596 * 1e-10)
VelocityEpsilonDen == 596

\* B, the magnetic field strength
B == 4

\* mu_0 = 1 / Mu0Den
Mu0Den == 8

\* damping_factor = 1e-5 = 1 / DampingDen
DampingDen == 100000

\* mass_particle = 1 / MassDen
MassDen == 1000000

\* observer_influence_factor = 1.1, in hundredths
observer_influence_factor == 110

\* volume_per_observer = 1.0
volume_per_observer == 1

\* total_time; dt = total_time / time_steps
total_time == 12

\* the literal 1e6 of the observer guards
ObserverCap == 1000000

\* initial field_strength (also the restart value of the 3D surface loop)
field_strength0 == 10

\* initial temperature and its rate per unit of time (1e7 and 1e5)
temperature0 == 100

TemperatureRate == 1

\* initial pressure and copyandpaste's rate per unit of time (100000.0, 500.0)
pressure0 == 100

PressureRate == 5

\* initial spacetime_curvature of copyandpaste.py (1e-35) and of
\* alien_weaponry.py (1e23, far above 2 * cap_value / c^4)
spacetime_curvature0 == 0

AWSpacetimeCurvature0 == 100000

\* initial quantum_tunneling_probability (0.1), in hundredths

quantum_tunneling_probability0 == 10

Inf == MaxFloat + 1

---------------------------------------------------------------------------
(* Float arithmetic *)

\* n / d rounded to the nearest grid point (d > 0)
Round(n, d) == (2 * n + d) \div (2 * d)

\* NumPy float64 product: overflow gives inf (a RuntimeWarning, no exception)
NpMul(a, b) ==
    IF a = 0 \/ b = 0 THEN 0
    ELSE IF a > MaxFloat \/ b > MaxFloat THEN Inf
    ELSE IF a > MaxFloat \div b THEN Inf
    ELSE a * b

\* x ** 2 on a Python float raises OverflowError when the result is not finite
PyPowOverflows(x) == x # 0 /\ x > MaxFloat \div x

\* x ** 2 where no OverflowError is raised (NumPy scalar, or in range)
Square(x) == NpMul(x, x)

\* Python's min(a, b): a unless b < a
Min(a, b) == IF b < a THEN b ELSE a

\* np.sqrt on the grid (floor); every argument is at most (100 * c)^2
Isqrt(x) ==
    CHOOSE r \in 0..(100 * c) : r * r <= x /\ (r + 1) * (r + 1) > x

RECURSIVE Halvings(_)
\* range reduction of log: the number of halvings that bring y (hundredths)
\* into [1, 2)
Halvings(y) == IF y < 200 THEN 0 ELSE 1 + Halvings(y \div 2)

RECURSIVE Mantissa(_)
Mantissa(y) == IF y < 200 THEN y ELSE Mantissa(y \div 2)

\* np.log1p(x) for x >= 0 in hundredths, result in hundredths:
\* ln(1+x) = n * ln 2 + 2 * (z + z^3 / 3), z = (m - 1) / (m + 1), in thousandths
Log1p(x) ==
    LET y == 100 + x
        n == Halvings(y)
        m == Mantissa(y)
        z == (1000 * (m - 100)) \div (m + 100)
    IN  Round(693 * n + 2 * z + (2 * z * z * z) \div 3000000, 10)

\* np.exp(-x) for 0 <= x in hundredths, result in hundredths (Pade [2/2];
\* beyond x = 6 the value is below half a hundredth)
ExpNeg(x) ==
    IF x > 600 THEN 0
    ELSE Round(100 * (120000 - 600 * x + x * x), 120000 + 600 * x + x * x)

\* np.tanh(y) for y >= 0 in hundredths, result in hundredths
Tanh(y) ==
    IF y > 300 THEN 100
    ELSE Round(100 * (100 - ExpNeg(2 * y)), 100 + ExpNeg(2 * y))

---------------------------------------------------------------------------
(* Shared pieces of the two scripts *)

\* len(time_array) for time_array = np.arange(0, total_time, dt)
LenTimeArray == time_steps

\* time_array[i] = i * dt
TimeArray(i) == Round(i * total_time, time_steps)

\* x * dt with dt = total_time / time_steps
TimesDt(x) == Round(x * total_time, time_steps)

\* np.zeros(len(time_array))
Zeros == [k \in 0..(LenTimeArray - 1) |-> 0]

\* plasma_velocity += (acceleration - damping_factor * plasma_velocity) * dt
UpdateVelocity(v, acceleration) ==
    v + TimesDt(acceleration - Round(v, DampingDen))

\* 1 / np.sqrt(1 - (v / c)**2) in hundredths, for v <= c; a zero denominator
\* gives inf (NumPy warns and does not raise)
LorentzFactor(v) ==
    IF c * c - v * v = 0 THEN Inf
    ELSE Round(10000 * c, Isqrt(10000 * (c * c - v * v)))

\* observer_factor = np.log1p(observer_influence_factor * current_observers)
ObserverFactor(factor, observers) == Log1p(factor * observers)

\* field_strength *= observer_factor (a NumPy float64 afterwards)
ScaleFieldStrength(fs, of) ==
    IF fs > MaxFloat THEN Inf ELSE Round(fs * of, 100)

\* CapFieldStrength with the cap left out
CapFieldStrengthOff(fs, cap) == fs

\* if field_strength > cap_value: field_strength = cap_value
CapFieldStrength(fs, cap) == IF fs > cap THEN cap ELSE fs

\* EnergyDensity without the min against cap_value
EnergyDensityUncapped(fs, v, cap) ==
    LET f2 == Square(fs)
        half == IF f2 > MaxFloat THEN Inf ELSE Round(f2, 2)
    IN  NpMul(half, Square(v))

\* min(0.5 * (field_strength**2) * (plasma_velocity**2), cap_value)
EnergyDensity(fs, v, cap) ==
    LET f2 == Square(fs)
        half == IF f2 > MaxFloat THEN Inf ELSE Round(f2, 2)
    IN  Min(NpMul(half, Square(v)), cap)

\* quantum_tunneling_probability = 1 - np.exp(-field_strength / cap_value)
TunnelingProbability(fs, cap) == 100 - ExpNeg(Round(100 * fs, cap))

\* spacetime_curvature = 2 * energy_density / (c**4)
SpacetimeCurvature(ed) == Round(2 * ed, c * c * c * c)

---------------------------------------------------------------------------
(* alien_weaponry.py *)

\* the settings of the named constants explored for alien_weaponry.py;
\* observer_interval = 0 is the setting that makes `i % observer_interval`
\* raise the ZeroDivisionError the script has a handler for
AWSettings ==
    [cap_value : {CapLow, CapHigh},
     observer_interval : {0, 2},
     initial_observers : {1, ObserversNearCap},
     initial_acceleration : {1},
     max_acceleration : {1, 3}]

\* increasing_acceleration(t, total_time, max_acceleration)
increasing_acceleration(s, t) ==
    s.initial_acceleration
        + Round((s.max_acceleration - s.initial_acceleration) * t, total_time)

\* magnetic_pressure_effect(B) = B**2 / (2 * mu_0)
magnetic_pressure_effect(b) == Round(b * b * Mu0Den, 2)

\* plasma_velocity = c - 1e-10, rounded to the grid
VelocityCap == Round(c * VelocityEpsilonDen - 1, VelocityEpsilonDen)

\* if plasma_velocity >= c: plasma_velocity = c - 1e-10
CapVelocity(v) == IF v >= c THEN VelocityCap ELSE v

\* AWObservers with the interval test left out
AWObserversEveryStep(s, i) ==
    IF s.current_observers < ObserverCap
    THEN s.current_observers + 2
    ELSE s.current_observers

\* if i % observer_interval == 0 and current_observers < 1e6:
\*     current_observers += 2
AWObservers(s, i) ==
    IF i % s.observer_interval = 0 /\ s.current_observers < ObserverCap
    THEN s.current_observers + 2
    ELSE s.current_observers

\* time_dilation = lorentz_factor
\*     * np.sqrt(1 - (2 * spacetime_curvature * mass_particle) / (c**2))
TimeDilation(lf, sc) ==
    IF lf > MaxFloat THEN Inf
    ELSE Round(lf * Isqrt(100 * (100 - Round(200 * sc, MassDen * c * c))), 100)

\* dimension_portal_probability = np.tanh(spacetime_curvature / cap_value)
PortalProbability(sc, cap) == Tanh(Round(100 * sc, cap))

\* the state after construction (lines 6-48), for one setting of the constants
AWInit(k) ==
    [cap_value |-> k.cap_value,
     observer_interval |-> k.observer_interval,
     initial_observers |-> k.initial_observers,
     initial_acceleration |-> k.initial_acceleration,
     max_acceleration |-> k.max_acceleration,
     pc |-> IF LenTimeArray > 1 THEN "loop" ELSE "save_json",
     i |-> 1,
     plasma_velocity |-> 0,
     lorentz_factor |-> 100,
     energy_density |-> 0,
     field_strength |-> field_strength0,
     temperature |-> temperature0,
     pressure |-> pressure0,
     quantum_tunneling_probability |-> quantum_tunneling_probability0,
     spacetime_curvature |-> AWSpacetimeCurvature0,
     current_observers |-> k.initial_observers,
     plasma_velocity_array |-> Zeros,
     lorentz_factor_array |-> Zeros,
     energy_density_array |-> Zeros,
     field_strength_array |-> Zeros,
     temperature_array |-> Zeros,
     pressure_array |-> Zeros,
     quantum_tunneling_probability_array |-> Zeros,
     spacetime_curvature_array |-> Zeros,
     volume_array |-> Zeros,
     time_dilation_array |-> Zeros,
     dimension_portal_probability_array |-> Zeros,
     Z |-> <<>>,
     stdout |-> <<>>,
     files |-> {},
     figures |-> <<>>,
     iterations |-> <<>>,
     raised |-> "none",
     traceback |-> "none"]

\* except OverflowError (lines 123-135): the first two copies run, then
\* `cap_value[i-1]` subscripts a float: TypeError, raised inside the handler,
\* ends the script with a traceback
AWOverflowHandler(s, i) ==
    [s EXCEPT !.stdout = Append(@, <<"Overflow error at iteration", i>>),
              !.plasma_velocity_array[i] = s.plasma_velocity_array[i - 1],
              !.lorentz_factor_array[i] = s.lorentz_factor_array[i - 1],
              !.raised = "OverflowError",
              !.traceback = "TypeError",
              !.pc = "crashed"]

\* AWZeroDivisionHandler that also copies the previous pressure and temperature
\* forward, as the OverflowError handler does
AWZeroDivisionHandlerCopying(s, i) ==
    [s EXCEPT !.stdout = Append(@, <<"Zero division error at iteration", i>>),
              !.lorentz_factor = Inf,
              !.plasma_velocity_array[i] = s.plasma_velocity,
              !.lorentz_factor_array[i] = Inf,
              !.time_dilation_array[i] = Inf,
              !.pressure_array[i] = s.pressure_array[i - 1],
              !.temperature_array[i] = s.temperature_array[i - 1],
              !.raised = "ZeroDivisionError"]

\* except ZeroDivisionError (lines 137-143)
AWZeroDivisionHandler(s, i) ==
    [s EXCEPT !.stdout = Append(@, <<"Zero division error at iteration", i>>),
              !.lorentz_factor = Inf,
              !.plasma_velocity_array[i] = s.plasma_velocity,
              !.lorentz_factor_array[i] = Inf,
              !.time_dilation_array[i] = Inf,
              !.raised = "ZeroDivisionError"]

\* one pass of the try statement (lines 63-143) for index i
AWLoopBody(s, i) ==
    LET acceleration == increasing_acceleration(s, TimeArray(i))
        v1 == UpdateVelocity(s.plasma_velocity, acceleration)
        v == CapVelocity(v1)
        lf == LorentzFactor(v)
        pressure == magnetic_pressure_effect(B)
        \* lines 64-77 done
        s1 == [s EXCEPT !.plasma_velocity = v,
                        !.lorentz_factor = lf,
                        !.pressure = pressure,
                        !.pressure_array[i] = pressure]
        observers == AWObservers(s, i)
        of == ObserverFactor(observer_influence_factor, observers)
        fs1 == ScaleFieldStrength(s.field_strength, of)
        fs == CapFieldStrength(fs1, s.cap_value)
        \* lines 80-89 done
        s2 == [s1 EXCEPT !.current_observers = observers,
                         !.field_strength = fs]
        \* line 92: `**` raises on a Python float (the capped value just
        \* assigned), not on the NumPy scalar an update leaves
        overflow == \/ fs1 > s.cap_value /\ PyPowOverflows(fs)
                    \/ v1 >= c /\ PyPowOverflows(v)
        ed == EnergyDensity(fs, v, s.cap_value)
        volume == observers * volume_per_observer
        temperature == s.temperature + TimesDt(TemperatureRate)
        qtp == TunnelingProbability(fs, s.cap_value)
        sc == SpacetimeCurvature(ed)
        td == TimeDilation(lf, sc)
        dpp == PortalProbability(sc, s.cap_value)
    IN  IF s.observer_interval = 0 THEN AWZeroDivisionHandler(s1, i)
        ELSE IF overflow THEN AWOverflowHandler(s2, i)
        ELSE [s2 EXCEPT !.energy_density = ed,
                        !.temperature = temperature,
                        !.quantum_tunneling_probability = qtp,
                        !.spacetime_curvature = sc,
                        !.plasma_velocity_array[i] = v,
                        !.lorentz_factor_array[i] = lf,
                        !.energy_density_array[i] = ed,
                        !.field_strength_array[i] = fs,
                        !.temperature_array[i] = temperature,
                        !.pressure_array[i] = pressure,
                        !.quantum_tunneling_probability_array[i] = qtp,
                        !.spacetime_curvature_array[i] = sc,
                        !.volume_array[i] = volume,
                        !.time_dilation_array[i] = td,
                        !.dimension_portal_probability_array[i] = dpp,
                        !.raised = "no"]

\* ForNext that leaves the loop one index early
ForNextShort(s, after) ==
    IF s.pc = "crashed" THEN s
    ELSE [s EXCEPT !.i = @ + 1,
                   !.pc = IF s.i + 1 < LenTimeArray - 1 THEN "loop" ELSE after]

\* for i in range(1, len(time_array)): the next index, or the statement after
\* the loop; an exception that left the try statement has ended the script
ForNext(s, after) ==
    IF s.pc = "crashed" THEN s
    ELSE [s EXCEPT !.i = @ + 1,
                   !.pc = IF s.i + 1 < LenTimeArray THEN "loop" ELSE after]

\* one iteration of the simulation loop
AWIterate ==
    /\ aw.pc = "loop"
    /\ aw' = ForNext([AWLoopBody(aw, aw.i) EXCEPT !.iterations = Append(@, aw.i)],
                     "save_json")
    /\ UNCHANGED cp

---------------------------------------------------------------------------
(* copyandpaste.py *)

\* the settings of the named constants explored for copyandpaste.py
CPSettings ==
    [cap_value : {CapLow, CapHigh},
     observer_interval : {2, 3},
     initial_observers : {1, ObserversNearCap},
     acceleration : {1, 2}]

\* 1 / np.sqrt(1 - (plasma_velocity / c)**2) if plasma_velocity < c
\*     else plasma_velocity / c
CPLorentzFactor(v) == IF v < c THEN LorentzFactor(v) ELSE Round(100 * v, c)

\* CPObservers without the cap at 1e6
CPObserversUncapped(s, i) ==
    IF i % s.observer_interval = 0
    THEN 2 * s.current_observers
    ELSE s.current_observers

\* if i % observer_interval == 0:
\*     current_observers *= 2
\*     if current_observers > 1e6: current_observers = 1e6
CPObservers(s, i) ==
    IF i % s.observer_interval = 0
    THEN IF 2 * s.current_observers > ObserverCap
         THEN ObserverCap
         ELSE 2 * s.current_observers
    ELSE s.current_observers

\* the state after construction (lines 5-44), for one setting of the constants
CPInit(k) ==
    [cap_value |-> k.cap_value,
     observer_interval |-> k.observer_interval,
     initial_observers |-> k.initial_observers,
     acceleration |-> k.acceleration,
     pc |-> IF LenTimeArray > 1 THEN "loop" ELSE "plot_series",
     i |-> 1,
     plasma_velocity |-> 0,
     lorentz_factor |-> 100,
     energy_density |-> 0,
     field_strength |-> field_strength0,
     temperature |-> temperature0,
     pressure |-> pressure0,
     quantum_tunneling_probability |-> quantum_tunneling_probability0,
     spacetime_curvature |-> spacetime_curvature0,
     current_observers |-> k.initial_observers,
     plasma_velocity_array |-> Zeros,
     lorentz_factor_array |-> Zeros,
     energy_density_array |-> Zeros,
     field_strength_array |-> Zeros,
     temperature_array |-> Zeros,
     pressure_array |-> Zeros,
     quantum_tunneling_probability_array |-> Zeros,
     spacetime_curvature_array |-> Zeros,
     volume_array |-> Zeros,
     Z |-> <<>>,
     stdout |-> <<>>,
     files |-> {},
     figures |-> <<>>,
     iterations |-> <<>>,
     raised |-> "none",
     traceback |-> "none"]

\* except OverflowError (lines 94-104)
CPOverflowHandler(s, i) ==
    [s EXCEPT !.stdout = Append(@, <<"Overflow error at iteration", i>>),
              !.plasma_velocity_array[i] = s.plasma_velocity_array[i - 1],
              !.lorentz_factor_array[i] = s.lorentz_factor_array[i - 1],
              !.energy_density_array[i] = s.cap_value,
              !.field_strength_array[i] = s.field_strength_array[i - 1],
              !.temperature_array[i] = s.temperature_array[i - 1],
              !.pressure_array[i] = s.pressure_array[i - 1],
              !.quantum_tunneling_probability_array[i] =
                  s.quantum_tunneling_probability_array[i - 1],
              !.spacetime_curvature_array[i] = s.spacetime_curvature_array[i - 1],
              !.volume_array[i] = s.volume_array[i - 1],
              !.raised = "OverflowError"]

\* one pass of the try statement (lines 48-104) for index i
CPLoopBody(s, i) ==
    LET v == UpdateVelocity(s.plasma_velocity, s.acceleration)
        lf == CPLorentzFactor(v)
        observers == CPObservers(s, i)
        of == ObserverFactor(observer_influence_factor, observers)
        fs1 == ScaleFieldStrength(s.field_strength, of)
        fs == CapFieldStrength(fs1, s.cap_value)
        \* lines 50-65 done
        s1 == [s EXCEPT !.plasma_velocity = v,
                        !.lorentz_factor = lf,
                        !.current_observers = observers,
                        !.field_strength = fs]
        \* line 68: plasma_velocity is a Python float throughout; field_strength
        \* is one when the cap has just been assigned
        overflow == \/ fs1 > s.cap_value /\ PyPowOverflows(fs)
                    \/ PyPowOverflows(v)
        ed == EnergyDensity(fs, v, s.cap_value)
        volume == observers * volume_per_observer
        temperature == s.temperature + TimesDt(TemperatureRate)
        pressure == s.pressure + TimesDt(PressureRate)
        qtp == TunnelingProbability(fs, s.cap_value)
        sc == SpacetimeCurvature(ed)
    IN  IF overflow THEN CPOverflowHandler(s1, i)
        ELSE [s1 EXCEPT !.energy_density = ed,
                        !.temperature = temperature,
                        !.pressure = pressure,
                        !.quantum_tunneling_probability = qtp,
                        !.spacetime_curvature = sc,
                        !.plasma_velocity_array[i] = v,
                        !.lorentz_factor_array[i] = lf,
                        !.energy_density_array[i] = ed,
                        !.field_strength_array[i] = fs,
                        !.temperature_array[i] = temperature,
                        !.pressure_array[i] = pressure,
                        !.quantum_tunneling_probability_array[i] = qtp,
                        !.spacetime_curvature_array[i] = sc,
                        !.volume_array[i] = volume,
                        !.raised = "no"]

\* one iteration of the simulation loop
CPIterate ==
    /\ cp.pc = "loop"
    /\ cp' = ForNext([CPLoopBody(cp, cp.i) EXCEPT !.iterations = Append(@, cp.i)],
                     "plot_series")
    /\ UNCHANGED aw

---------------------------------------------------------------------------
(* After the loop: exports and plots *)

\* observer_factors = np.arange(1.0, 1.6, 0.1), in hundredths; the length is
\* ceil((1.6 - 1.0) / 0.1) = 7 in binary64
observer_factors == <<100, 110, 120, 130, 140, 150, 160>>

\* alien_weaponry.py: if i % observer_interval == 0: current_observers += 1
\* copyandpaste.py:   if i % observer_interval == 0: current_observers *= 1
SurfaceObservers(script, interval, i, observers) ==
    IF i % interval = 0
    THEN IF script = "aw" THEN observers + 1 ELSE observers * 1
    ELSE observers

\* the body of the inner loop, for the observer influence factor `influence`:
\*     observer_factor = np.log1p(influence * current_observers)
\*     field_strength *= observer_factor
\*     field_strength = np.log1p(field_strength)
SurfaceStep(influence, observers, fs) ==
    Log1p(Round(fs * ObserverFactor(influence, observers), 100))

RECURSIVE SurfaceRun(_, _, _, _, _, _)
\* for i in range(1, len(time_array)): the values Z[i, j] for i = 1, 2, ...
\* (hundredths), with `influence` the factor the inner loop multiplies by
SurfaceRun(script, interval, influence, i, observers, fs) ==
    IF i >= LenTimeArray THEN <<>>
    ELSE LET o == SurfaceObservers(script, interval, i, observers)
             f == SurfaceStep(influence, o, fs)
         IN  <<f>> \o SurfaceRun(script, interval, influence, i + 1, o, f)

\* column j of Z: row 0 stays 0 (np.zeros_like).  The loop variable `factor`
\* of `for j, factor in enumerate(observer_factors)` is not used in the body,
\* which reads the global observer_influence_factor
SurfaceColumn(script, s, factor) ==
    <<0>> \o SurfaceRun(script, s.observer_interval, observer_influence_factor,
                        1, s.initial_observers, 100 * field_strength0)

\* the 3D surface section: Z and the figure; with observer_interval = 0 the
\* first `i % observer_interval` raises ZeroDivisionError outside any try
Surface(script, s, after) ==
    IF s.observer_interval = 0
    THEN [s EXCEPT !.Z = [j \in DOMAIN observer_factors |->
                             [k \in 1..LenTimeArray |-> 0]],
                   !.current_observers = s.initial_observers,
                   !.field_strength = field_strength0,
                   !.traceback = "ZeroDivisionError",
                   !.pc = "crashed"]
    ELSE [s EXCEPT !.Z = [j \in DOMAIN observer_factors |->
                             SurfaceColumn(script, s, observer_factors[j])],
                   !.current_observers =
                       IF LenTimeArray > 1
                       THEN LET o[i \in 0..(LenTimeArray - 1)] ==
                                    IF i = 0 THEN s.initial_observers
                                    ELSE SurfaceObservers(script,
                                             s.observer_interval, i, o[i - 1])
                            IN  o[LenTimeArray - 1]
                       ELSE s.initial_observers,
                   !.field_strength =
                       Round(SurfaceColumn(script, s, 0)[LenTimeArray], 100),
                   !.figures = Append(@, "surface"),
                   !.pc = after]

\* a section that shows one figure
Show(s, figure, after) ==
    [s EXCEPT !.figures = Append(@, figure), !.pc = after]

\* a section that writes one file
Save(s, file, after) ==
    [s EXCEPT !.files = @ \cup {file}, !.pc = after]

\* alien_weaponry.py lines 149-166: json.dump(simulation_data, f)
AWSaveJson ==
    /\ aw.pc = "save_json"
    /\ aw' = Save(aw, "simulation_data.json", "plot_series")
    /\ UNCHANGED cp

\* lines 169-223: the ten line plots
AWPlotSeries ==
    /\ aw.pc = "plot_series"
    /\ aw' = Show(aw, "series", "plot_surface")
    /\ UNCHANGED cp

\* lines 225-251: the 3D surface
AWPlotSurface ==
    /\ aw.pc = "plot_surface"
    /\ aw' = Surface("aw", aw, "plot_box")
    /\ UNCHANGED cp

\* lines 253-273: box plots
AWPlotBox ==
    /\ aw.pc = "plot_box"
    /\ aw' = Show(aw, "box", "plot_scatter")
    /\ UNCHANGED cp

\* lines 275-299: scatter plots
AWPlotScatter ==
    /\ aw.pc = "plot_scatter"
    /\ aw' = Show(aw, "scatter", "analysis")
    /\ UNCHANGED cp

\* lines 301-306: mean and maximum of the portal probability, printed
AWAnalysis ==
    /\ aw.pc = "analysis"
    /\ aw' = [aw EXCEPT !.stdout = Append(@, <<"Average Probability", 0>>),
                        !.pc = "write_csv"]
    /\ UNCHANGED cp

\* lines 308-338: csv.writer to simulation_results.csv
AWWriteCsv ==
    /\ aw.pc = "write_csv"
    /\ aw' = [Save(aw, "simulation_results.csv", "pandas_csv")
                EXCEPT !.stdout = Append(@, <<"Simulation results saved", 0>>)]
    /\ UNCHANGED cp

\* lines 340-361: df.to_csv("simulation_data.csv")
AWPandasCsv ==
    /\ aw.pc = "pandas_csv"
    /\ aw' = Save(aw, "simulation_data.csv", "done")
    /\ UNCHANGED cp

\* copyandpaste.py lines 110-154: the eight line plots
CPPlotSeries ==
    /\ cp.pc = "plot_series"
    /\ cp' = Show(cp, "series", "plot_hist")
    /\ UNCHANGED aw

\* lines 156-181: histograms
CPPlotHist ==
    /\ cp.pc = "plot_hist"
    /\ cp' = Show(cp, "hist", "plot_scatter")
    /\ UNCHANGED aw

\* lines 183-207: scatter plots
CPPlotScatter ==
    /\ cp.pc = "plot_scatter"
    /\ cp' = Show(cp, "scatter", "plot_box")
    /\ UNCHANGED aw

\* lines 209-229: box plots
CPPlotBox ==
    /\ cp.pc = "plot_box"
    /\ cp' = Show(cp, "box", "plot_surface")
    /\ UNCHANGED aw

\* lines 231-255: the 3D surface
CPPlotSurface ==
    /\ cp.pc = "plot_surface"
    /\ cp' = Surface("cp", cp, "done")
    /\ UNCHANGED aw

---------------------------------------------------------------------------
(* The two programs *)

Init ==
    /\ aw \in {AWInit(k) : k \in AWSettings}
    /\ cp \in {CPInit(k) : k \in CPSettings}

Next ==
    \/ AWIterate
    \/ AWSaveJson
    \/ AWPlotSeries
    \/ AWPlotSurface
    \/ AWPlotBox
    \/ AWPlotScatter
    \/ AWAnalysis
    \/ AWWriteCsv
    \/ AWPandasCsv
    \/ CPIterate
    \/ CPPlotSeries
    \/ CPPlotHist
    \/ CPPlotScatter
    \/ CPPlotBox
    \/ CPPlotSurface

Spec == Init /\ [][Next]_vars

---------------------------------------------------------------------------
(* Properties *)

\* the index of the iteration executed last
Last(s) == s.iterations[Len(s.iterations)]

\* the simulation loop has run at least once and the 3D surface section, which
\* reuses current_observers and field_strength, has not
AfterIteration(s) == s.iterations # <<>> /\ s.Z = <<>>

\* the indices 1, 2, ..., n in increasing order
UpTo(n) == [k \in 1..n |-> k]

\* C1: in both scripts the loop executes exactly one iteration for each index
\* i = 1 .. len(time_array)-1, in increasing order, and then terminates so that
\* the code after the loop is reached.
LoopRunsEveryIndex(s) ==
    /\ s.pc = "loop" => s.iterations = UpTo(s.i - 1)
    /\ s.pc # "loop" => s.iterations = UpTo(LenTimeArray - 1)

SharedSeries ==
    {"plasma_velocity_array", "lorentz_factor_array", "energy_density_array",
     "field_strength_array", "temperature_array", "pressure_array",
     "quantum_tunneling_probability_array", "spacetime_curvature_array",
     "volume_array"}

AWSeries ==
    SharedSeries \cup {"time_dilation_array", "dimension_portal_probability_array"}

\* C2: when OverflowError is raised during iteration i, entry i of every
\* recorded series is that series' entry i-1 (the energy-density entry is
\* cap_value), no exception escapes the handler, and the loop goes on to i+1.
OverflowCopiesForward(s, series) ==
    (AfterIteration(s) /\ s.raised = "OverflowError") =>
        /\ \A a \in series \ {"energy_density_array"} :
               s[a][Last(s)] = s[a][Last(s) - 1]
        /\ s.energy_density_array[Last(s)] = s.cap_value
        /\ s.traceback = "none"
        /\ s.pc # "crashed"
        /\ s.i = Last(s) + 1

C2_OverflowCopiesForward ==
    OverflowCopiesForward(aw, AWSeries) /\ OverflowCopiesForward(cp, SharedSeries)

\* the two scripts run with the same values for the constants they share, and
\* alien_weaponry.py's acceleration ramp is flat at copyandpaste.py's value
EqualConstants ==
    /\ aw.cap_value = cp.cap_value
    /\ aw.observer_interval = cp.observer_interval
    /\ aw.initial_observers = cp.initial_observers
    /\ aw.initial_acceleration = cp.acceleration
    /\ aw.max_acceleration = cp.acceleration

\* both scripts have executed the same number (at least one) of iterations
SideBySide ==
    /\ EqualConstants
    /\ AfterIteration(aw) /\ AfterIteration(cp)
    /\ Len(aw.iterations) = Len(cp.iterations)

\* a scalar and its series agree in the two scripts
Agree(x, a) == aw[x] = cp[x] /\ aw[a] = cp[a]

\* C3 (as claimed): run side by side with equal constants, the shared state
\* variables (velocity, Lorentz factor, observer count, field strength, energy
\* density, volume, temperature, pressure, tunneling probability, curvature)
\* are equal after every step.
C3_SameTransition ==
    SideBySide =>
        /\ Agree("plasma_velocity", "plasma_velocity_array")
        /\ Agree("lorentz_factor", "lorentz_factor_array")
        /\ Agree("current_observers", "volume_array")
        /\ Agree("field_strength", "field_strength_array")
        /\ Agree("energy_density", "energy_density_array")
        /\ Agree("temperature", "temperature_array")
        /\ Agree("pressure", "pressure_array")
        /\ Agree("quantum_tunneling_probability",
                 "quantum_tunneling_probability_array")
        /\ Agree("spacetime_curvature", "spacetime_curvature_array")

\* no exception handler has run in either script
NoHandlerRan == aw.stdout = <<>> /\ cp.stdout = <<>>

\* no observer update has happened yet
BeforeFirstInterval == Len(aw.iterations) < aw.observer_interval

\* C3 (amended): run side by side with equal constants and no exception, the
\* temperature is equal after every step; velocity and Lorentz factor are equal
\* while the velocity is below c; observer count, field strength, volume and
\* tunneling probability are equal until the first observer update, and energy
\* density and curvature while both conditions hold.  Pressure is not shared.
C3_SharedTransition ==
    (SideBySide /\ NoHandlerRan) =>
        /\ Agree("temperature", "temperature_array")
        /\ cp.plasma_velocity < c =>
               /\ Agree("plasma_velocity", "plasma_velocity_array")
               /\ Agree("lorentz_factor", "lorentz_factor_array")
        /\ BeforeFirstInterval =>
               /\ Agree("current_observers", "volume_array")
               /\ Agree("field_strength", "field_strength_array")
               /\ Agree("quantum_tunneling_probability",
                        "quantum_tunneling_probability_array")
        /\ (BeforeFirstInterval /\ cp.plasma_velocity < c) =>
               /\ Agree("energy_density", "energy_density_array")
               /\ Agree("spacetime_curvature", "spacetime_curvature_array")

\* C3 witness: both scripts have made a step from equal constants, below c and
\* before the first observer update
C3_Witness ==
    /\ SideBySide /\ NoHandlerRan
    /\ BeforeFirstInterval
    /\ 0 < cp.plasma_velocity /\ cp.plasma_velocity < c
    /\ aw.pressure # cp.pressure

\* C4: at the end of every iteration that completes without an exception,
\* field_strength and field_strength_array[i] are at most cap_value.
FieldStrengthCapped(s) ==
    (AfterIteration(s) /\ s.raised = "no") =>
        /\ s.field_strength <= s.cap_value
        /\ s.field_strength_array[Last(s)] <= s.cap_value

C4_FieldStrengthCapped == FieldStrengthCapped(aw) /\ FieldStrengthCapped(cp)

\* C4 witness: an iteration in which the cap was applied completed normally,
\* in each script
C4_Witness ==
    /\ AfterIteration(aw) /\ aw.raised = "no"
    /\ aw.field_strength_array[Last(aw)] = aw.cap_value
    /\ AfterIteration(cp) /\ cp.raised = "no"
    /\ cp.field_strength_array[Last(cp)] = cp.cap_value

\* C5: every value written to energy_density_array, on the normal path and on
\* the OverflowError path, lies in 0 .. cap_value, and every stored
\* spacetime_curvature is at most 2 * cap_value / c^4.
EnergyDensityInRange(s) ==
    \A k \in DOMAIN s.energy_density_array :
        /\ 0 <= s.energy_density_array[k]
        /\ s.energy_density_array[k] <= s.cap_value
        /\ s.spacetime_curvature_array[k] <= SpacetimeCurvature(s.cap_value)

C5_EnergyDensityInRange == EnergyDensityInRange(aw) /\ EnergyDensityInRange(cp)

\* C5 witness: the cap decided an entry on the normal path (alien_weaponry.py)
\* and the OverflowError handler wrote one (copyandpaste.py)
C5_Witness ==
    /\ AfterIteration(aw) /\ aw.raised = "no"
    /\ aw.energy_density_array[Last(aw)] = aw.cap_value
    /\ aw.spacetime_curvature_array[Last(aw)] = SpacetimeCurvature(aw.cap_value)
    /\ AfterIteration(cp) /\ cp.raised = "OverflowError"
    /\ cp.energy_density_array[Last(cp)] = cp.cap_value

\* the loop of a script has completed all its iterations
LoopFinished(s) == s.pc # "loop" /\ Len(s.iterations) = LenTimeArray - 1

\* nothing is exported or plotted before the loop has finished
NothingBeforeLoopEnd(s) ==
    ~LoopFinished(s) => s.files = {} /\ s.figures = <<>>

\* C6 (as claimed): each script, after its loop has completed, exports the
\* series to a JSON or CSV file and renders the plots; nothing is exported or
\* plotted before the loop has finished.
ExportsAndPlots(s) ==
    /\ s.pc = "done" => s.files # {} /\ s.figures # <<>>
    /\ NothingBeforeLoopEnd(s)

C6_ExportsAndPlots == ExportsAndPlots(aw) /\ ExportsAndPlots(cp)

\* C6 (amended): alien_weaponry.py writes simulation_data.json once its loop
\* has completed, before any plot, and at its end has written the two CSV
\* files and shown its four figures; copyandpaste.py shows its five figures
\* and never writes a file; neither exports or plots before its loop ends.
C6_ExportsThenPlots ==
    /\ NothingBeforeLoopEnd(aw) /\ NothingBeforeLoopEnd(cp)
    /\ (LoopFinished(aw) /\ aw.pc # "save_json") =>
           "simulation_data.json" \in aw.files
    /\ aw.pc = "done" =>
           /\ aw.files = {"simulation_data.json", "simulation_results.csv",
                          "simulation_data.csv"}
           /\ aw.figures = <<"series", "surface", "box", "scatter">>
    /\ cp.files = {}
    /\ cp.pc = "done" =>
           cp.figures = <<"series", "hist", "scatter", "box", "surface">>

\* C6 witness: both scripts have run to their end
C6_Witness == aw.pc = "done" /\ cp.pc = "done"

\* C7: in alien_weaponry.py, after the velocity update and cap of every
\* iteration, plasma_velocity is strictly less than c (the Lorentz denominator
\* is positive), also in the iteration where the cap is applied.
C7_VelocityBelowC ==
    AfterIteration(aw) =>
        /\ aw.plasma_velocity < c
        /\ c * c - aw.plasma_velocity * aw.plasma_velocity > 0

\* C8: when ZeroDivisionError is caught during iteration i of
\* alien_weaponry.py, index i holds the current plasma_velocity, infinity for
\* the Lorentz factor and the time dilation, every other series keeps what it
\* held when the handler started (pressure: the value the try body stored; the
\* rest: their initial 0, no copy of entry i-1), and the loop goes on to i+1.
C8_ZeroDivisionHandled ==
    (AfterIteration(aw) /\ aw.raised = "ZeroDivisionError") =>
        /\ aw.plasma_velocity_array[Last(aw)] = aw.plasma_velocity
        /\ aw.lorentz_factor_array[Last(aw)] = Inf
        /\ aw.time_dilation_array[Last(aw)] = Inf
        /\ aw.pressure_array[Last(aw)] = aw.pressure
        /\ \A a \in AWSeries \ {"plasma_velocity_array", "lorentz_factor_array",
                                "time_dilation_array", "pressure_array"} :
               aw[a][Last(aw)] = 0
        /\ aw.traceback = "none" /\ aw.pc # "crashed"
        /\ aw.i = Last(aw) + 1

\* C8 witness: the handler has run for an index whose predecessor holds other
\* values
C8_Witness ==
    /\ AfterIteration(aw) /\ aw.raised = "ZeroDivisionError"
    /\ aw.pressure_array[Last(aw)] # aw.pressure_array[Last(aw) - 1]
    /\ aw.plasma_velocity_array[Last(aw)] > 0

\* C9: in copyandpaste.py current_observers doubles only at iterations with
\* i % observer_interval == 0, is unchanged at every other iteration, and at
\* the end of every iteration is at most 1e6, so volume is at most
\* 1e6 * volume_per_observer.
C9_ObserversCapped ==
    /\ [](cp.Z = <<>> =>
            /\ cp.current_observers <= ObserverCap
            /\ \A k \in DOMAIN cp.volume_array :
                   cp.volume_array[k] <= ObserverCap * volume_per_observer)
    /\ [][cp.pc = "loop" =>
            IF cp.i % cp.observer_interval = 0
            THEN cp'.current_observers = 2 * cp.current_observers
                 \/ /\ cp'.current_observers = ObserverCap
                    /\ 2 * cp.current_observers > ObserverCap
            ELSE cp'.current_observers = cp.current_observers]_cp

\* C9 witness: the cap has cut a doubling, and the capped count has been
\* stored as a volume
C9_Witness ==
    /\ cp.Z = <<>>
    /\ cp.initial_observers < ObserverCap
    /\ cp.current_observers = ObserverCap
    /\ AfterIteration(cp) /\ cp.raised = "no"
    /\ cp.volume_array[Last(cp)] = ObserverCap * volume_per_observer

\* C10: for each column j of the 3D surface, the values Z[i, j] are computed
\* with that column's own factor observer_factors[j] as the observer influence
\* factor.
ColumnsUseOwnFactor(script, s) ==
    (s.Z # <<>> /\ s.traceback = "none") =>
        \A j \in DOMAIN observer_factors :
            s.Z[j] = <<0>> \o SurfaceRun(script, s.observer_interval,
                                         observer_factors[j], 1,
                                         s.initial_observers,
                                         100 * field_strength0)

C10_ColumnsUseOwnFactor ==
    ColumnsUseOwnFactor("aw", aw) /\ ColumnsUseOwnFactor("cp", cp)

\* C11: in alien_weaponry.py current_observers changes only at iterations with
\* i % observer_interval == 0, only by +2, only while it is below 1e6, and at
\* the end of every iteration it is at most 1e6.
C11_ObserversWithinThreshold ==
    /\ [](AfterIteration(aw) => aw.current_observers <= ObserverCap)
    /\ [][aw.pc = "loop" =>
            \/ aw'.current_observers = aw.current_observers
            \/ /\ aw'.current_observers = aw.current_observers + 2
               /\ aw.observer_interval # 0
               /\ aw.i % aw.observer_interval = 0
               /\ aw.current_observers < ObserverCap]_aw

====
